---- MODULE Spec2Model ----
(***************************************************************************)
(* HubSpot connector (backend/integrations/hubspot.py): the OAuth          *)
(* authorization-code flow (authorize_hubspot, oauth2callback_hubspot),    *)
(* the credential read (get_hubspot_credentials), the Redis store the      *)
(* credential lives in, and the contact listing (get_items_hubspot).       *)
(*                                                                         *)
(* Python strings are sequences of one-character strings; JSON text is a   *)
(* sequence of lexical tokens; decoded JSON is a tagged record; a Python   *)
(* dict is the insertion-ordered sequence of its (key, value) items.       *)
(***************************************************************************)
EXTENDS Integers, Sequences, FiniteSets, TLC

\* ------------------------------------------------------------------ bounds
\* longest `state` query parameter of a callback request
MaxStateLen == 3
\* longest user_id / org_id handed to authorize_hubspot
MaxIdLen == 2
\* number of callback invocations (they may overlap in time)
NumFlows == 2
\* number of clock advances of the store
MaxTicks == 1

\* ----------------------------------------------------------------- strings
Delim == "_"
Alphabet == {"a", Delim}

StrUpTo(n) == UNION {[1..k -> Alphabet] : k \in 0..n}

RECURSIVE SplitFrom(_, _, _)
\* str.split(sep) scanning s from position i with the current part cur
SplitFrom(s, i, cur) ==
    IF i > Len(s) THEN <<cur>>
    ELSE IF s[i] = Delim THEN <<cur>> \o SplitFrom(s, i + 1, <<>>)
    ELSE SplitFrom(s, i + 1, Append(cur, s[i]))

\* state.split("_"): always at least one part, one more than the delimiters
split(s) == SplitFrom(s, 1, <<>>)

\* f"{org_id}_{user_id}": the identifiers in the wrong order
FormatStateSwapped(user_id, org_id) == org_id \o <<Delim>> \o user_id

\* f"{user_id}_{org_id}"
FormatState(user_id, org_id) == user_id \o <<Delim>> \o org_id

\* the fixed text of the authorization URL up to and including "state="
AuthUrlPrefix ==
    <<"https://app.hubspot.com/oauth/authorize?", "client_id=", "HUBSPOT_CLIENT_ID", "&",
      "redirect_uri=", "HUBSPOT_REDIRECT_URI", "&",
      "scope=crm.objects.contacts.read%20crm.objects.contacts.write", "&", "state=">>

\* authorize_hubspot(user_id, org_id)
authorize_hubspot(user_id, org_id) ==
    [authorization_url |-> AuthUrlPrefix \o FormatState(user_id, org_id)]

\* the text authorize_hubspot wrote after "state=" in the URL
StateInUrl(url) == SubSeq(url, Len(AuthUrlPrefix) + 1, Len(url))

\* f"hubspot_credentials_{user_id}_{org_id}"
redis_key(user_id, org_id) == <<"hubspot_credentials_">> \o user_id \o <<Delim>> \o org_id

\* -------------------------------------------------------------------- JSON
\* lexical tokens of a text
Tok(k, s, n) == [k |-> k, s |-> s, n |-> n]
P(c) == Tok("punct", c, 0)
S(s) == Tok("string", s, 0)
N(n) == Tok("number", "", n)
\* a piece of text that is no JSON token
W(s) == Tok("raw", s, 0)

\* decoded values: str, int, None, list, dict
Val(t, s, n, items) == [t |-> t, s |-> s, n |-> n, items |-> items]
Str(s) == Val("str", s, 0, <<>>)
Num(n) == Val("int", "", n, <<>>)
None == Val("None", "", 0, <<>>)
List(items) == Val("list", "", 0, items)
Dict(items) == Val("dict", "", 0, items)
Item(key, val) == [key |-> key, val |-> val]

\* the literal null
NullTok == Tok("literal", "null", 0)

IsScalarTok(t) == t.k \in {"string", "number"} \/ t = NullTok
ScalarOf(t) ==
    IF t.k = "string" THEN Str(t.s) ELSE IF t.k = "number" THEN Num(t.n) ELSE None

\* d[key] = val on an insertion-ordered dict: a repeated key keeps its place
DictSet(items, key, val) ==
    IF \E i \in 1..Len(items) : items[i].key = key
    THEN [i \in 1..Len(items) |-> IF items[i].key = key THEN Item(key, val) ELSE items[i]]
    ELSE Append(items, Item(key, val))

HasKey(d, key) == \E i \in 1..Len(d.items) : d.items[i].key = key
DictGet(d, key, default) ==
    IF HasKey(d, key)
    THEN d.items[CHOOSE i \in 1..Len(d.items) : d.items[i].key = key].val
    ELSE default

Failed == [ok |-> FALSE, v |-> None]
Parsed(v) == [ok |-> TRUE, v |-> v]

\* the outcome of reading one value: the value and the position after it
Read(v, next) == [ok |-> TRUE, v |-> v, next |-> next]
NoRead == [ok |-> FALSE, v |-> None, next |-> 0]

RECURSIVE ParseValue(_, _), ParseMembers(_, _, _), ParseElements(_, _, _)

\* members of an object from position i, after "{" or ","; acc holds the dict so far
ParseMembers(text, i, acc) ==
    IF i + 1 > Len(text) THEN NoRead
    ELSE IF ~(text[i].k = "string" /\ text[i + 1] = P(":")) THEN NoRead
    ELSE LET r == ParseValue(text, i + 2)
         IN  IF ~r.ok \/ r.next > Len(text) THEN NoRead
             ELSE LET d == DictSet(acc, text[i].s, r.v)
                  IN  IF text[r.next] = P("}") THEN Read(Dict(d), r.next + 1)
                      ELSE IF text[r.next] = P(",") THEN ParseMembers(text, r.next + 1, d)
                      ELSE NoRead

\* elements of an array from position i, after "[" or ","
ParseElements(text, i, acc) ==
    LET r == ParseValue(text, i)
    IN  IF ~r.ok \/ r.next > Len(text) THEN NoRead
        ELSE LET l == Append(acc, r.v)
             IN  IF text[r.next] = P("]") THEN Read(List(l), r.next + 1)
                 ELSE IF text[r.next] = P(",") THEN ParseElements(text, r.next + 1, l)
                 ELSE NoRead

\* the value that starts at position i
ParseValue(text, i) ==
    IF i > Len(text) THEN NoRead
    ELSE IF IsScalarTok(text[i]) THEN Read(ScalarOf(text[i]), i + 1)
    ELSE IF text[i] = P("{")
    THEN (IF i + 1 <= Len(text) /\ text[i + 1] = P("}") THEN Read(Dict(<<>>), i + 2)
          ELSE ParseMembers(text, i + 1, <<>>))
    ELSE IF text[i] = P("[")
    THEN (IF i + 1 <= Len(text) /\ text[i + 1] = P("]") THEN Read(List(<<>>), i + 2)
          ELSE ParseElements(text, i + 1, <<>>))
    ELSE NoRead

\* json.loads / response.json(): ok = FALSE stands for json.JSONDecodeError;
\* the text has to be one value and nothing after it
json_loads(text) ==
    LET r == ParseValue(text, 1)
    IN  IF r.ok /\ r.next = Len(text) + 1 THEN Parsed(r.v) ELSE Failed

DumpScalar(v) ==
    IF v.t = "str" THEN S(v.s) ELSE IF v.t = "int" THEN N(v.n) ELSE NullTok

RECURSIVE json_dumps(_), DumpItems(_, _), DumpElements(_, _)

DumpItems(items, i) ==
    IF i > Len(items) THEN <<>>
    ELSE (IF i > 1 THEN <<P(",")>> ELSE <<>>)
         \o <<S(items[i].key), P(":")>> \o json_dumps(items[i].val)
         \o DumpItems(items, i + 1)

DumpElements(items, i) ==
    IF i > Len(items) THEN <<>>
    ELSE (IF i > 1 THEN <<P(",")>> ELSE <<>>) \o json_dumps(items[i])
         \o DumpElements(items, i + 1)

\* str(response_json) in place of json.dumps: Python's repr is no JSON text
str_repr(v) == <<W("repr")>> \o DumpItems(v.items, 1)

\* json.dumps
json_dumps(v) ==
    IF v.t = "dict" THEN <<P("{")>> \o DumpItems(v.items, 1) \o <<P("}")>>
    ELSE IF v.t = "list" THEN <<P("[")>> \o DumpElements(v.items, 1) \o <<P("]")>>
    ELSE <<DumpScalar(v)>>

\* ------------------------------------------------------------------- state
VARIABLES
    store,      \* Redis: key -> [value, ttl, left], keys without entry are absent
    cb,         \* the oauth2callback_hubspot invocations, one record per flow
    writeLog,   \* the flows in the order their add_key_value_redis was executed
    get,        \* the latest get_hubspot_credentials call and what happened since
    ticks,      \* clock advances so far
    auth,       \* the latest authorize_hubspot call
    fetch       \* the get_items_hubspot invocation

vars == <<store, cb, writeLog, get, ticks, auth, fetch>>

Flows == 1..NumFlows

\* text of a fixed message of the code
Msg(s) == <<W(s)>>

\* what an operation hands back to its caller
Result(kind, error, value) == [kind |-> kind, error |-> error, value |-> value]
NoResult == Result("none", <<>>, None)
\* {"error": text}
ErrorPayload(text) == Result("error", text, None)
\* HTMLResponse(content=...)
HTMLResponse == Result("html", <<>>, None)
\* an exception that leaves the operation uncaught
Raised(exc) == Result("raised", Msg(exc), None)
\* a decoded credential object
Returned(v) == Result("value", <<>>, v)

\* ------------------------------------------------------------ Redis client
DEFAULT_EXPIRE == 1800

NoStore == [k \in {} |-> 0]

Entry(value, ttl) == [value |-> value, ttl |-> ttl, left |-> ttl.n]

\* add_key_value_redis(key, value, expire): set with a time to live
add_key_value_redis(s, key, value, expire) ==
    [k \in DOMAIN s \cup {key} |-> IF k = key THEN Entry(value, expire) ELSE s[k]]

\* get_value_redis(key): the stored text, or None
get_value_redis(s, key) ==
    IF key \in DOMAIN s THEN [found |-> TRUE, value |-> s[key].value]
    ELSE [found |-> FALSE, value |-> <<>>]

\* the store after d seconds: entries whose time to live has run out are gone
Elapse(s, d) ==
    [k \in {x \in DOMAIN s : s[x].left > d} |-> [s[k] EXCEPT !.left = @ - d]]

\* ---------------------------------------------------- callback requests
\* request.query_params of a callback request
Req(has_code, code, has_state, state) ==
    [has_code |-> has_code, code |-> code, has_state |-> has_state, state |-> state]

Requests ==
    {Req(TRUE, c, TRUE, s) : c \in {<<>>, <<"c">>}, s \in StrUpTo(MaxStateLen)}
    \cup {Req(FALSE, <<>>, TRUE, s) : s \in StrUpTo(MaxStateLen)}
    \cup {Req(TRUE, c, FALSE, <<>>) : c \in {<<>>, <<"c">>}}
    \cup {Req(FALSE, <<>>, FALSE, <<>>)}

\* `code is None` in place of `not code`
CodeIsNone(params) == ~params.has_code

\* `not code` for code = request.query_params.get("code")
CodeMissing(params) == ~params.has_code \/ Len(params.code) = 0

\* request.query_params.get("state", "")
StateParam(params) == IF params.has_state THEN params.state ELSE <<>>

\* state.split("_")[:2] in place of the exact unpacking
UnpackFirstTwo(state) == Len(split(state)) >= 2

\* user_id, org_id = state.split("_") raises ValueError unless there are two parts
UnpackOk(state) == Len(split(state)) = 2

\* ------------------------------------------------ token endpoint responses
Response(status, text) == [status |-> status, text |-> text]
NoResponse == Response(0, <<>>)

TokenBody(token, expires_in) ==
    <<P("{"), S("access_token"), P(":"), S(token), P(","),
      S("expires_in"), P(":"), N(expires_in), P("}")>>

Responses ==
    { Response(200, TokenBody("tok1", 1)),
      Response(200, TokenBody("tok2", 2)),
      Response(200, <<P("{"), S("access_token"), P(":"), S("tok1"), P("}")>>),
      Response(200, <<P("{"), S("expires_in"), P(":"), N(1), P("}")>>),
      Response(200, <<P("["), P("]")>>),
      Response(200, <<NullTok>>),
      Response(200, <<W("<html>")>>),
      Response(204, <<>>),
      Response(302, <<>>),
      Response(400, <<P("{"), S("status"), P(":"), S("BAD_AUTH_CODE"), P("}")>>) }

\* only 4xx and 5xx taken as failures
is_not_error(response) == response.status < 400

\* response.raise_for_status() raises httpx.HTTPStatusError unless is_success
is_success(response) == response.status >= 200 /\ response.status <= 299

\* ------------------------------------------------- oauth2callback_hubspot
\* posts counts the requests sent to the token endpoint; age is the time since the
\* store write of the flow, capped at DEFAULT_EXPIRE (-1 before the write)
Flow(pc, params, user_id, org_id, response, response_json, expire, posts, age, result) ==
    [pc |-> pc, params |-> params, user_id |-> user_id, org_id |-> org_id,
     response |-> response, response_json |-> response_json, expire |-> expire,
     posts |-> posts, age |-> age, result |-> result]

IdleFlow == Flow("idle", Req(FALSE, <<>>, FALSE, <<>>), <<>>, <<>>, NoResponse, None, None,
                 0, -1, NoResult)

\* the handler up to its first await: the two parameter checks, then the POST
Enter(params) ==
    IF CodeMissing(params)
    THEN [IdleFlow EXCEPT !.pc = "done", !.params = params,
                          !.result = ErrorPayload(Msg("Authorization code not found"))]
    ELSE IF ~UnpackOk(StateParam(params))
    THEN [IdleFlow EXCEPT !.pc = "done", !.params = params,
                          !.result = ErrorPayload(Msg("Invalid state parameter"))]
    ELSE [IdleFlow EXCEPT !.pc = "posting", !.params = params,
                          !.user_id = split(StateParam(params))[1],
                          !.org_id = split(StateParam(params))[2],
                          !.posts = 1]

\* the default in place of the reported lifetime
ExpireDefault(response_json) == Num(DEFAULT_EXPIRE)

\* `expire=response_json.get("expires_in", 1800)`: only a dict has .get
ExpireOf(response_json) == DictGet(response_json, "expires_in", Num(DEFAULT_EXPIRE))

\* the handler without raise_for_status: any answer that decodes goes on to the write
ExchangedUnchecked(f, response) ==
    LET got == [f EXCEPT !.response = response]
        decoded == json_loads(response.text)
    IN  IF ~decoded.ok
        THEN [got EXCEPT !.pc = "done",
                         !.result = ErrorPayload(Msg("Invalid response from HubSpot"))]
        ELSE IF decoded.v.t # "dict"
        THEN [got EXCEPT !.pc = "done", !.response_json = decoded.v,
                         !.result = Raised("AttributeError")]
        ELSE [got EXCEPT !.pc = "storing", !.response_json = decoded.v,
                         !.expire = ExpireOf(decoded.v)]

\* the handler from the answer of the POST up to the await of the store write
Exchanged(f, response) ==
    LET got == [f EXCEPT !.response = response]
        decoded == json_loads(response.text)
    IN  IF ~is_success(response)
        THEN [got EXCEPT !.pc = "done", !.result = ErrorPayload(response.text)]
        ELSE IF ~decoded.ok
        THEN [got EXCEPT !.pc = "done",
                         !.result = ErrorPayload(Msg("Invalid response from HubSpot"))]
        ELSE IF decoded.v.t # "dict"
        THEN [got EXCEPT !.pc = "done", !.response_json = decoded.v,
                         !.result = Raised("AttributeError")]
        ELSE [got EXCEPT !.pc = "storing", !.response_json = decoded.v,
                         !.expire = ExpireOf(decoded.v)]

\* f"hubspot_credentials_{user_id}": the key without the organisation
FlowKeyUserOnly(f) == redis_key(f.user_id, <<>>)

\* the key the handler writes
FlowKey(f) == redis_key(f.user_id, f.org_id)

\* --------------------------------------------- get_hubspot_credentials
\* the credential returned without the access_token test
ContainsAnything(credentials, key) == TRUE

\* `"access_token" in credentials`: key of a dict, element of a list, substring
\* of a str (of the strings here only "access_token" holds it); an int or None
\* raises TypeError
Contains(credentials, key) ==
    IF credentials.t = "dict" THEN HasKey(credentials, key)
    ELSE IF credentials.t = "list"
    THEN \E i \in 1..Len(credentials.items) : credentials.items[i] = Str(key)
    ELSE credentials.t = "str" /\ credentials.s = key

NoCredentials == ErrorPayload(Msg("No valid credentials found. Please authorize HubSpot."))

get_hubspot_credentials(s, user_id, org_id) ==
    LET stored_credentials == get_value_redis(s, redis_key(user_id, org_id))
        decoded == json_loads(stored_credentials.value)
    IN  IF stored_credentials.found /\ Len(stored_credentials.value) > 0
        THEN IF ~decoded.ok THEN NoCredentials
             ELSE IF decoded.v.t \in {"int", "None"} THEN Raised("TypeError")
             ELSE IF Contains(decoded.v, "access_token") THEN Returned(decoded.v)
             ELSE NoCredentials
        ELSE NoCredentials

\* what happened to the key of the latest get since that call
Since(old, written, expired) ==
    IF written /\ (expired \/ old \in {"expired", "both"}) THEN "both"
    ELSE IF expired /\ (written \/ old \in {"written", "both"}) THEN "both"
    ELSE IF written THEN "written"
    ELSE IF expired THEN "expired"
    ELSE old

GetRecord(called, user_id, org_id, result, since, prev, between) ==
    [called |-> called, user_id |-> user_id, org_id |-> org_id, result |-> result,
     since |-> since, prev |-> prev, between |-> between]

NoGet == GetRecord(FALSE, <<>>, <<>>, NoResult, "nothing", NoResult, "nothing")

\* the latest get, after a write of key
Noted(g, key) ==
    IF g.called /\ redis_key(g.user_id, g.org_id) = key
    THEN [g EXCEPT !.since = Since(@, TRUE, FALSE)]
    ELSE g

\* ------------------------------------------------------ get_items_hubspot
\* most records of one listing response
MaxRecords == 2

\* the credentials argument: a str (its text) or an object already decoded
StrCredentials(text) == [is_str |-> TRUE, text |-> text, value |-> None]
ObjCredentials(value) == [is_str |-> FALSE, text |-> <<>>, value |-> value]

\* bool(v)
Truthy(v) ==
    IF v.t = "str" THEN v.s # ""
    ELSE IF v.t = "int" THEN v.n # 0
    ELSE IF v.t = "None" THEN FALSE
    ELSE Len(v.items) > 0

\* `access_token is None` in place of `not access_token`
TokenIsNone(access_token) == access_token.t = "None"

\* `not access_token`
TokenMissing(access_token) == ~Truthy(access_token)

\* str(v) as an f-string puts it into the text
PyStr(v) ==
    IF v.t = "str" THEN v.s
    ELSE IF v.t = "None" THEN "None"
    ELSE IF v.t = "int" THEN ToString(v.n)
    ELSE "<repr>"

\* s.replace("Z", "+00:00") on the timestamp texts of the listing responses
ReplaceZ(s) ==
    IF s = "2023-01-01T00:00:00Z" THEN "2023-01-01T00:00:00+00:00"
    ELSE IF s = "2023-06-30T12:30:00.000Z" THEN "2023-06-30T12:30:00.000+00:00"
    ELSE s

\* the texts datetime.fromisoformat takes; any other raises ValueError
IsoTexts == {"2023-01-01T00:00:00+00:00", "2023-06-30T12:30:00.000+00:00"}

Datetime(s) == Val("datetime", s, 0, <<>>)

\* the outcome of a step that may raise
Done(v) == [ok |-> TRUE, v |-> v, exc |-> ""]
Exc(name) == [ok |-> FALSE, v |-> None, exc |-> name]

\* datetime.fromisoformat(props[key].replace("Z", "+00:00")) if key in props else None
ParsedTime(props, key) ==
    IF ~HasKey(props, key) THEN Done(None)
    ELSE LET v == DictGet(props, key, None)
         IN  IF v.t # "str" THEN Exc("AttributeError")
             ELSE IF ReplaceZ(v.s) \in IsoTexts THEN Done(Datetime(ReplaceZ(v.s)))
             ELSE Exc("ValueError")

\* " ".strip() and the like: blank pieces at both ends go
RECURSIVE Strip(_)
Strip(pieces) ==
    IF Len(pieces) = 0 THEN pieces
    ELSE IF pieces[1] \in {"", " "} THEN Strip(Tail(pieces))
    ELSE IF pieces[Len(pieces)] \in {"", " "} THEN Strip(SubSeq(pieces, 1, Len(pieces) - 1))
    ELSE pieces

\* the metadata dict of lines 197-214
Metadata(contact, props) ==
    [hubspot_id |-> DictGet(contact, "id", None),
     created_at |-> DictGet(props, "createdate", None),
     updated_at |-> DictGet(props, "lastmodifieddate", None),
     company |-> DictGet(props, "company", None),
     website |-> DictGet(props, "website", None),
     address |-> DictGet(props, "address", None),
     city |-> DictGet(props, "city", None),
     state |-> DictGet(props, "state", None),
     country |-> DictGet(props, "country", None),
     phone |-> DictGet(props, "phone", None),
     mobile_phone |-> DictGet(props, "mobilephone", None),
     job_title |-> DictGet(props, "jobtitle", None),
     industry |-> DictGet(props, "industry", None),
     lifecycle_stage |-> DictGet(props, "lifecyclestage", None),
     lead_status |-> DictGet(props, "lead_status", None),
     description |-> <<"Contact at ", PyStr(DictGet(props, "company", Str("No Company")))>>]

\* IntegrationItem(...) of lines 226-236
IntegrationItem(contact, props, creation_time, last_modified_time) ==
    [id |-> DictGet(contact, "id", None),
     type |-> "contact",
     name |-> Strip(<<PyStr(DictGet(props, "firstname", Str(""))), " ",
                      PyStr(DictGet(props, "lastname", Str("")))>>),
     email |-> DictGet(props, "email", None),
     creation_time |-> creation_time,
     last_modified_time |-> last_modified_time,
     metadata |-> Metadata(contact, props),
     raw_data |-> contact,
     visibility |-> TRUE]

\* one pass of the loop body, lines 195-238: the item, or the exception raised
BuildItem(contact) ==
    IF contact.t # "dict" THEN Exc("AttributeError")
    ELSE LET props == DictGet(contact, "properties", Dict(<<>>))
         IN  IF props.t # "dict" THEN Exc("AttributeError")
             ELSE LET creation_time == ParsedTime(props, "createdate")
                      last_modified_time == ParsedTime(props, "lastmodifieddate")
                  IN  IF ~creation_time.ok THEN creation_time
                      ELSE IF ~last_modified_time.ok THEN last_modified_time
                      ELSE Done(IntegrationItem(contact, props, creation_time.v,
                                                last_modified_time.v))

RECURSIVE BuildItems(_, _, _)
\* the loop of line 194 from record i on, integration_items being acc so far
BuildItems(results, i, acc) ==
    IF i > Len(results) THEN Done(acc)
    ELSE LET item == BuildItem(results[i])
         IN  IF ~item.ok THEN item
             ELSE BuildItems(results, i + 1, Append(acc, item.v))

\* what `for contact in v` runs over; an int or None is not iterable
Iterated(v) ==
    IF v.t = "list" THEN Done(v.items)
    ELSE IF v.t = "dict" THEN Done([i \in 1..Len(v.items) |-> Str(v.items[i].key)])
    ELSE IF v.t = "str" THEN Done(IF v.s = "" THEN <<>> ELSE <<Str(v.s)>>)
    ELSE Exc("TypeError")

\* return integration_items
ItemsResult(items) == Result("items", <<>>, items)

\* lines 189-249 on the answer of the listing endpoint
Listed(response) ==
    LET decoded == json_loads(response.text)
        results == Iterated(DictGet(decoded.v, "results", List(<<>>)))
        built == BuildItems(results.v, 1, <<>>)
    IN  IF ~is_success(response) THEN ErrorPayload(response.text)
        ELSE IF ~decoded.ok THEN ErrorPayload(Msg("JSONDecodeError"))
        ELSE IF decoded.v.t # "dict" THEN ErrorPayload(Msg("AttributeError"))
        ELSE IF ~results.ok THEN ErrorPayload(Msg(results.exc))
        ELSE IF ~built.ok THEN ErrorPayload(Msg(built.exc))
        ELSE ItemsResult(built.v)

\* gets counts the requests sent to the listing endpoint
Fetch(pc, credentials, access_token, gets, response, result) ==
    [pc |-> pc, credentials |-> credentials, access_token |-> access_token, gets |-> gets,
     response |-> response, result |-> result]

IdleFetch == Fetch("idle", ObjCredentials(None), None, 0, NoResponse, NoResult)

\* lines 161-177: the credentials are decoded and tested, then the GET is sent
Called(credentials) ==
    LET decoded == IF credentials.is_str THEN json_loads(credentials.text)
                   ELSE Parsed(credentials.value)
        access_token == DictGet(decoded.v, "access_token", None)
        ended == [IdleFetch EXCEPT !.pc = "done", !.credentials = credentials]
    IN  IF ~decoded.ok THEN [ended EXCEPT !.result = ErrorPayload(Msg("JSONDecodeError"))]
        ELSE IF decoded.v.t # "dict"
        THEN [ended EXCEPT !.result = ErrorPayload(Msg("AttributeError"))]
        ELSE IF TokenMissing(access_token)
        THEN [ended EXCEPT !.result = ErrorPayload(Msg("Access token is missing"))]
        ELSE [ended EXCEPT !.pc = "getting", !.access_token = access_token, !.gets = 1]

\* the dict a caller holds after get_hubspot_credentials returned
PayloadOf(result) ==
    IF result.kind = "value" THEN result.value
    ELSE Dict(<<Item("error", Str(result.error[1].s))>>)

\* ------------------------------------------------------------------ actions
Init ==
    /\ store = NoStore
    /\ cb = [p \in Flows |-> IdleFlow]
    /\ writeLog = <<>>
    /\ get = NoGet
    /\ ticks = 0
    /\ auth = [called |-> FALSE, user_id |-> <<>>, org_id |-> <<>>, authorization_url |-> <<>>]
    /\ fetch = IdleFetch

\* a callback request arrives: lines 42-66
Begin(p, params) ==
    /\ cb[p].pc = "idle"
    /\ cb' = [cb EXCEPT ![p] = Enter(params)]
    /\ UNCHANGED <<store, writeLog, get, ticks, auth, fetch>>

\* the token endpoint answers: lines 67-81
Respond(p, response) ==
    /\ cb[p].pc = "posting"
    /\ cb' = [cb EXCEPT ![p] = Exchanged(cb[p], response)]
    /\ UNCHANGED <<store, writeLog, get, ticks, auth, fetch>>

\* the POST sent once more after a failure in transport
PostRetries(p) ==
    /\ cb[p].pc = "posting"
    /\ cb[p].posts <= 1
    /\ cb' = [cb EXCEPT ![p].posts = @ + 1]
    /\ UNCHANGED <<store, writeLog, get, ticks, auth, fetch>>

\* the POST fails in transport (httpx.RequestError is not caught)
PostFails(p) ==
    /\ cb[p].pc = "posting"
    /\ cb' = [cb EXCEPT ![p].pc = "done", ![p].result = Raised("httpx.RequestError")]
    /\ UNCHANGED <<store, writeLog, get, ticks, auth, fetch>>

\* the write made conditional on the key being absent (SET ... NX)
StoreWriteIfAbsent(p) ==
    /\ cb[p].pc = "storing"
    /\ store' = IF FlowKey(cb[p]) \in DOMAIN store THEN store
                ELSE add_key_value_redis(store, FlowKey(cb[p]),
                                         json_dumps(cb[p].response_json), cb[p].expire)
    /\ writeLog' = Append(writeLog, p)
    /\ cb' = [cb EXCEPT ![p].pc = "done", ![p].age = 0, ![p].result = HTMLResponse]
    /\ get' = Noted(get, FlowKey(cb[p]))
    /\ UNCHANGED <<ticks, auth, fetch>>

\* the store executes the write and the handler returns the page: lines 80-84
StoreWrite(p) ==
    /\ cb[p].pc = "storing"
    /\ store' = add_key_value_redis(store, FlowKey(cb[p]), json_dumps(cb[p].response_json),
                                    cb[p].expire)
    /\ writeLog' = Append(writeLog, p)
    /\ cb' = [cb EXCEPT ![p].pc = "done", ![p].age = 0, ![p].result = HTMLResponse]
    /\ get' = Noted(get, FlowKey(cb[p]))
    /\ UNCHANGED <<ticks, auth, fetch>>

\* the caller's task is cancelled while the handler awaits
Cancel(p) ==
    /\ cb[p].pc \in {"posting", "storing"}
    /\ cb' = [cb EXCEPT ![p].pc = "cancelled"]
    /\ UNCHANGED <<store, writeLog, get, ticks, auth, fetch>>

TickSteps == {1, DEFAULT_EXPIRE}

Min(a, b) == IF a < b THEN a ELSE b

\* d seconds pass: Redis drops the entries whose time to live ran out
Tick(d) ==
    /\ ticks < MaxTicks
    /\ ticks' = ticks + 1
    /\ store' = Elapse(store, d)
    /\ get' = IF get.called /\ redis_key(get.user_id, get.org_id) \in DOMAIN store \ DOMAIN store'
              THEN [get EXCEPT !.since = Since(@, FALSE, TRUE)]
              ELSE get
    /\ cb' = [p \in Flows |-> IF cb[p].age < 0 THEN cb[p]
                               ELSE [cb[p] EXCEPT !.age = Min(@ + d, DEFAULT_EXPIRE)]]
    /\ UNCHANGED <<writeLog, auth, fetch>>

\* the read followed by a delete of the key, as a one-time credential would be read
GetAndDeleteCredentials(user_id, org_id) ==
    /\ get' = GetRecord(TRUE, user_id, org_id,
                        get_hubspot_credentials(store, user_id, org_id), "nothing",
                        IF get.called /\ get.user_id = user_id /\ get.org_id = org_id
                        THEN get.result ELSE NoResult,
                        IF get.called /\ get.user_id = user_id /\ get.org_id = org_id
                        THEN get.since ELSE "nothing")
    /\ store' = [k \in DOMAIN store \ {redis_key(user_id, org_id)} |-> store[k]]
    /\ UNCHANGED <<cb, writeLog, ticks, auth, fetch>>

\* get_hubspot_credentials(user_id, org_id): lines 143-156
GetCredentials(user_id, org_id) ==
    /\ get' = GetRecord(TRUE, user_id, org_id,
                        get_hubspot_credentials(store, user_id, org_id), "nothing",
                        IF get.called /\ get.user_id = user_id /\ get.org_id = org_id
                        THEN get.result ELSE NoResult,
                        IF get.called /\ get.user_id = user_id /\ get.org_id = org_id
                        THEN get.since ELSE "nothing")
    /\ UNCHANGED <<store, cb, writeLog, ticks, auth, fetch>>

\* authorize_hubspot(user_id, org_id): lines 27-37
Authorize(user_id, org_id) ==
    /\ auth' = [called |-> TRUE, user_id |-> user_id, org_id |-> org_id,
                authorization_url |-> authorize_hubspot(user_id, org_id).authorization_url]
    /\ UNCHANGED <<store, cb, writeLog, get, ticks, fetch>>

\* the provider redirects to the callback, echoing the state of the URL verbatim
Redirect(p) ==
    /\ auth.called
    /\ Begin(p, Req(TRUE, <<"c">>, TRUE, StateInUrl(auth.authorization_url)))

\* get_items_hubspot(credentials) is called: lines 161-177
FetchBegin(credentials) ==
    /\ fetch.pc = "idle"
    /\ fetch' = Called(credentials)
    /\ UNCHANGED <<store, cb, writeLog, get, ticks, auth>>

\* get_items_hubspot(await get_hubspot_credentials(user_id, org_id))
FetchStored(user_id, org_id) ==
    /\ get_hubspot_credentials(store, user_id, org_id).kind # "raised"
    /\ FetchBegin(ObjCredentials(PayloadOf(get_hubspot_credentials(store, user_id, org_id))))

\* the listing endpoint answers: lines 189-249
FetchRespond(response) ==
    /\ fetch.pc = "getting"
    /\ fetch' = [fetch EXCEPT !.pc = "done", !.response = response, !.result = Listed(response)]
    /\ UNCHANGED <<store, cb, writeLog, get, ticks, auth>>

\* the GET fails in transport: httpx.RequestError is an Exception, lines 247-249
FetchFails ==
    /\ fetch.pc = "getting"
    /\ fetch' = [fetch EXCEPT !.pc = "done", !.result = ErrorPayload(Msg("httpx.RequestError"))]
    /\ UNCHANGED <<store, cb, writeLog, get, ticks, auth>>

\* the caller's task is cancelled while the GET is awaited
FetchCancel ==
    /\ fetch.pc = "getting"
    /\ fetch' = [fetch EXCEPT !.pc = "cancelled"]
    /\ UNCHANGED <<store, cb, writeLog, get, ticks, auth>>

\* the records of the listing responses
Contact(id, props) == Dict(<<Item("id", Str(id)), Item("properties", Dict(props))>>)

Contacts ==
    { Contact("1", <<Item("firstname", Str("Jane")), Item("lastname", Str("Doe")),
                     Item("company", Str("Acme")),
                     Item("createdate", Str("2023-01-01T00:00:00Z"))>>),
      Contact("2", <<Item("company", None),
                     Item("createdate", Str("2023-01-01T00:00:00Z")),
                     Item("lastmodifieddate", Str("2023-06-30T12:30:00.000Z"))>>),
      Contact("1", <<Item("company", Str(""))>>),
      Contact("3", <<>>),
      Contact("4", <<Item("company", Str("Acme")), Item("createdate", Str("yesterday")),
                     Item("lastmodifieddate", Str("2023-01-01T00:00:00Z"))>>),
      Contact("5", <<Item("lastmodifieddate", None)>>),
      Dict(<<Item("id", Str("6"))>>),
      Dict(<<Item("id", Str("7")), Item("properties", None)>>),
      Str("8") }

ListingBody(results) == json_dumps(Dict(<<Item("results", results)>>))

ListingResponses ==
    { Response(200, ListingBody(List(records))) :
        records \in UNION {[1..n -> Contacts] : n \in 0..MaxRecords} }
    \cup
    { Response(200, <<P("{"), P("}")>>),
      Response(200, ListingBody(None)),
      Response(200, <<P("["), P("]")>>),
      Response(200, <<W("<html>")>>),
      Response(204, <<>>),
      Response(302, <<>>),
      Response(401, <<P("{"), S("status"), P(":"), S("error"), P("}")>>),
      Response(500, ListingBody(List(<<Contact("3", <<>>)>>))) }

\* the arguments get_items_hubspot is called with
CredentialInputs ==
    { ObjCredentials(Dict(<<Item("access_token", Str("tok1"))>>)),
      ObjCredentials(Dict(<<Item("access_token", Str(""))>>)),
      ObjCredentials(Dict(<<Item("access_token", None)>>)),
      ObjCredentials(Dict(<<>>)),
      ObjCredentials(None),
      StrCredentials(TokenBody("tok2", 2)),
      StrCredentials(<<P("{"), S("expires_in"), P(":"), N(1), P("}")>>),
      StrCredentials(<<P("{"), S("access_token"), P(":"), S(""), P("}")>>),
      StrCredentials(<<P("["), P("]")>>),
      StrCredentials(<<W("tok1")>>) }

\* a re-authorization of one user/org pair, answered with a token
ReauthRequests == {Req(TRUE, <<"c">>, TRUE, FormatState(<<"a">>, <<"a">>))}

ReauthResponses == {Response(200, TokenBody("tok1", 1))}

\* the answers that lead to a store write
CredentialResponses ==
    { Response(200, TokenBody("tok1", 1)),
      Response(200, TokenBody("tok2", 2)),
      Response(200, <<P("{"), S("access_token"), P(":"), S("tok1"), P("}")>>),
      Response(200, <<P("{"), S("expires_in"), P(":"), N(1), P("}")>>) }

CredentialIds == {<<>>, <<"a">>, <<Delim>>}

\* one step of invocation p, its request drawn from reqs and its answer from resps
Callback(p, reqs, resps) ==
    \/ \E params \in reqs : Begin(p, params)
    \/ \E response \in resps : Respond(p, response)
    \/ PostFails(p)
    \/ StoreWrite(p)
    \/ Cancel(p)

\* Flow 1 handles any request and any answer while the other flows re-authorize.
Next ==
    \/ Callback(1, Requests, Responses)
    \/ \E p \in Flows \ {1} : Callback(p, ReauthRequests, ReauthResponses)
    \/ \E d \in TickSteps : Tick(d)

Spec == Init /\ [][Next]_vars

\* Authorizations of one pair, expiry and credential reads: flow 1 gets any of
\* the answers that lead to a write.
NextCredentials ==
    \/ \E p \in Flows, params \in ReauthRequests : Begin(p, params)
    \/ \E response \in CredentialResponses : Respond(1, response)
    \/ \E p \in Flows \ {1}, response \in ReauthResponses : Respond(p, response)
    \/ \E p \in Flows : StoreWrite(p)
    \/ \E d \in TickSteps : Tick(d)
    \/ \E user_id \in CredentialIds, org_id \in CredentialIds : GetCredentials(user_id, org_id)

SpecCredentials == Init /\ [][NextCredentials]_vars

\* authorize_hubspot for every pair of identifiers, and the callback it leads to.
NextAuthorize ==
    \/ \E user_id \in StrUpTo(MaxIdLen), org_id \in StrUpTo(MaxIdLen) : Authorize(user_id, org_id)
    \/ Redirect(1)

SpecAuthorize == Init /\ [][NextAuthorize]_vars

\* get_items_hubspot on the arguments above and on what the store holds after the
\* callback of one authorization.
NextItems ==
    \/ \E credentials \in CredentialInputs : FetchBegin(credentials)
    \/ FetchStored(<<"a">>, <<"a">>)
    \/ \E response \in ListingResponses : FetchRespond(response)
    \/ FetchFails
    \/ FetchCancel
    \/ Callback(1, ReauthRequests, Responses)

SpecItems == Init /\ [][NextItems]_vars

\* ------------------------------------------------------------------ claims
\* the token response R of flow p, decoded
TokenResponse(p) == json_loads(cb[p].response.text).v

\* flow p ended with the confirmation page
Succeeded(p) == cb[p].pc = "done" /\ cb[p].result = HTMLResponse

\* the identifiers named by the state parameter of flow p
StateIs(p, user_id, org_id) ==
    cb[p].params.has_state /\ cb[p].params.state = user_id \o <<"_">> \o org_id

CredentialKey(user_id, org_id) == <<"hubspot_credentials_">> \o user_id \o <<"_">> \o org_id

\* the key of the user/org named by the state parameter of flow p
KeyOfState(p) ==
    LET s == cb[p].params.state
        i == CHOOSE j \in 1..Len(s) : s[j] = "_"
    IN  CredentialKey(SubSeq(s, 1, i - 1), SubSeq(s, i + 1, Len(s)))

\* the time to live the token response asks for
LifetimeOf(R) == IF HasKey(R, "expires_in") THEN DictGet(R, "expires_in", None) ELSE Num(1800)

WritePos(p) == CHOOSE i \in 1..Len(writeLog) : writeLog[i] = p

\* a later write went to the same user/org as the write of flow p
Overwritten(p) ==
    \E i \in 1..Len(writeLog) :
        i > WritePos(p) /\ cb[writeLog[i]].params.state = cb[p].params.state

Writers == {writeLog[i] : i \in 1..Len(writeLog)}

NumDelims(s) == Cardinality({i \in 1..Len(s) : s[i] = "_"})

\* the premise of C1 for flow p and the pair (user_id, org_id)
StoredAndLive(p, user_id, org_id) ==
    /\ Succeeded(p)
    /\ StateIs(p, user_id, org_id)
    /\ HasKey(TokenResponse(p), "access_token")
    /\ ~Overwritten(p)
    /\ cb[p].age < LifetimeOf(TokenResponse(p)).n

\* C1: once the callback for state "{user_id}_{org_id}" has completed with a token
\* response R that has an access_token, then until the entry expires or is
\* overwritten get_credentials(user_id, org_id) returns R itself, not an error.
C1_CallbackThenGetReturnsResponse ==
    \A p \in Flows, user_id \in CredentialIds, org_id \in CredentialIds :
        StoredAndLive(p, user_id, org_id) =>
            /\ get_hubspot_credentials(store, user_id, org_id) = Returned(TokenResponse(p))
            /\ (get.called /\ get.user_id = user_id /\ get.org_id = org_id
                    /\ get.since = "nothing")
               => get.result = Returned(TokenResponse(p))

C1_Witness ==
    \E p \in Flows, user_id \in CredentialIds, org_id \in CredentialIds :
        /\ StoredAndLive(p, user_id, org_id)
        /\ Len(writeLog) = 2
        /\ get.called /\ get.user_id = user_id /\ get.org_id = org_id
        /\ get.since = "nothing"
        /\ get.result = Returned(TokenResponse(p))
        /\ DictGet(get.result.value, "access_token", None) = Str("tok2")

\* C2: the store write of a successful exchange carries the response's expires_in
\* as time to live when the field is present and 1800 seconds when it is absent.
C2_TtlIsExpiresInOrDefault ==
    [][\A p \in Flows :
        /\ (cb[p].pc = "posting" /\ cb'[p].response.status \in 200..299
                /\ json_loads(cb'[p].response.text).ok
                /\ json_loads(cb'[p].response.text).v.t = "dict")
           => /\ cb'[p].pc = "storing"
              /\ cb'[p].expire = LifetimeOf(json_loads(cb'[p].response.text).v)
        /\ (cb[p].pc = "storing" /\ cb'[p].pc = "done")
           => /\ KeyOfState(p) \in DOMAIN store'
              /\ store'[KeyOfState(p)].ttl = LifetimeOf(TokenResponse(p))
              /\ store'[KeyOfState(p)].left = LifetimeOf(TokenResponse(p)).n]_vars

C2_Witness ==
    \E p \in Flows, q \in Flows :
        /\ Succeeded(p) /\ Succeeded(q)
        /\ ~HasKey(TokenResponse(p), "expires_in")
        /\ KeyOfState(p) \in DOMAIN store /\ store[KeyOfState(p)].ttl = Num(1800)
        /\ HasKey(TokenResponse(q), "expires_in")
        /\ KeyOfState(q) \in DOMAIN store /\ store[KeyOfState(q)].ttl = Num(1)

\* C3: a callback request whose code is missing or empty, whatever its state, gets
\* the "Authorization code not found" payload and writes nothing to the store.
C3_MissingCodeRejected ==
    /\ [][\A p \in Flows :
            (cb[p].pc = "idle" /\ cb'[p].pc # "idle"
                /\ (~cb'[p].params.has_code \/ cb'[p].params.code = <<>>))
            => /\ cb'[p].pc = "done"
               /\ cb'[p].result = ErrorPayload(Msg("Authorization code not found"))
               /\ store' = store]_vars
    /\ [](\A p \in Flows :
            (cb[p].pc # "idle" /\ (~cb[p].params.has_code \/ cb[p].params.code = <<>>))
            => p \notin Writers)

C3_Witness ==
    \E p \in Flows :
        /\ cb[p].pc = "done"
        /\ cb[p].params.has_code /\ cb[p].params.code = <<>>
        /\ cb[p].params.has_state /\ NumDelims(cb[p].params.state) = 1
        /\ cb[p].result = ErrorPayload(Msg("Authorization code not found"))
        /\ DOMAIN store # {}

\* C4: a callback request with a code whose state does not hold exactly one "_"
\* (a missing state included) gets the "Invalid state parameter" payload, sends
\* nothing to the token endpoint and writes nothing to the store.
C4_InvalidStateRejected ==
    /\ [][\A p \in Flows :
            (cb[p].pc = "idle" /\ cb'[p].pc # "idle"
                /\ cb'[p].params.has_code /\ cb'[p].params.code # <<>>
                /\ (~cb'[p].params.has_state \/ NumDelims(cb'[p].params.state) # 1))
            => /\ cb'[p].pc = "done"
               /\ cb'[p].result = ErrorPayload(Msg("Invalid state parameter"))
               /\ cb'[p].posts = 0
               /\ store' = store]_vars
    /\ [](\A p \in Flows :
            (cb[p].pc # "idle" /\ cb[p].params.has_code /\ cb[p].params.code # <<>>
                /\ (~cb[p].params.has_state \/ NumDelims(cb[p].params.state) # 1))
            => cb[p].posts = 0 /\ p \notin Writers)

C4_Witness ==
    \E p \in Flows :
        /\ cb[p].pc = "done"
        /\ cb[p].params.has_code /\ cb[p].params.code # <<>>
        /\ cb[p].params.has_state /\ NumDelims(cb[p].params.state) = 2
        /\ Len(cb[p].params.state) = 3
        /\ cb[p].result = ErrorPayload(Msg("Invalid state parameter"))
        /\ DOMAIN store # {}

\* C5: a non-2xx answer of the token endpoint gives the error payload carrying the
\* raw response body, and the invocation leaves the store as it was: a credential
\* stored before is neither overwritten nor removed by it.
C5_FailedExchangeKeepsStore ==
    /\ [][\A p \in Flows :
            (cb[p].pc = "posting" /\ cb'[p].response # NoResponse
                /\ cb'[p].response.status \notin 200..299)
            => /\ cb'[p].pc = "done"
               /\ cb'[p].result = ErrorPayload(cb'[p].response.text)
               /\ store' = store]_vars
    /\ [](\A p \in Flows :
            (cb[p].response # NoResponse /\ cb[p].response.status \notin 200..299)
            => cb[p].pc = "done" /\ p \notin Writers)

C5_Witness ==
    \E p \in Flows, q \in Flows :
        /\ cb[p].pc = "done" /\ cb[p].response.status = 400
        /\ cb[p].result = ErrorPayload(cb[p].response.text)
        /\ Succeeded(q) /\ cb[q].params.state = cb[p].params.state
        /\ KeyOfState(q) \in DOMAIN store
        /\ store[KeyOfState(q)].value = json_dumps(TokenResponse(q))

\* {"error": "No valid credentials found. Please authorize HubSpot."}
NoCredentialsPayload ==
    ErrorPayload(Msg("No valid credentials found. Please authorize HubSpot."))

\* result is what get_credentials(user_id, org_id) is to return on store s
AsStored(s, user_id, org_id, result) ==
    LET k == CredentialKey(user_id, org_id)
        parsed == json_loads(s[k].value)
    IN  /\ k \notin DOMAIN s => result = NoCredentialsPayload
        /\ (k \in DOMAIN s /\ parsed.ok /\ parsed.v.t = "dict")
           => result = IF HasKey(parsed.v, "access_token") THEN Returned(parsed.v)
                       ELSE NoCredentialsPayload

\* C6: get_credentials returns the NoCredentials payload when the key holds no
\* value and when the stored object has no access_token, and otherwise returns
\* the stored object unchanged.
C6_GetCredentialsCases ==
    /\ \A user_id \in CredentialIds, org_id \in CredentialIds :
        AsStored(store, user_id, org_id, get_hubspot_credentials(store, user_id, org_id))
    /\ (get.called /\ get.since = "nothing")
       => AsStored(store, get.user_id, get.org_id, get.result)

C6_Witness ==
    LET k == CredentialKey(get.user_id, get.org_id)
    IN  /\ get.called /\ get.since = "nothing"
        /\ k \in DOMAIN store
        /\ ~HasKey(json_loads(store[k].value).v, "access_token")
        /\ get.result = NoCredentialsPayload
        /\ \E user_id \in CredentialIds, org_id \in CredentialIds :
            /\ CredentialKey(user_id, org_id) \notin DOMAIN store
            /\ get_hubspot_credentials(store, user_id, org_id) = NoCredentialsPayload

\* a step that is a call of get_credentials
IsGetStep == get' # get /\ get'.called /\ get'.since = "nothing"

\* C7 as stated: two successive calls of get_credentials(user_id, org_id) with no
\* store write for the key in between return identical values, and the call
\* leaves the store alone.
C7_AsStated ==
    /\ []((get.prev # NoResult /\ get.between \notin {"written", "both"})
            => get.result = get.prev)
    /\ [][IsGetStep => store' = store]_vars

\* C7 amended: two successive calls of get_credentials(user_id, org_id) with no
\* store write for the key and no expiry of its entry in between return identical
\* values, and the call leaves the store alone.
C7_RepeatableUnlessWrittenOrExpired ==
    /\ []((get.prev # NoResult /\ get.between = "nothing") => get.result = get.prev)
    /\ [][IsGetStep => store' = store]_vars

C7_Witness ==
    /\ get.called /\ get.between = "nothing"
    /\ get.prev.kind = "value"
    /\ get.result = get.prev
    /\ ticks > 0
    /\ CredentialKey(get.user_id, get.org_id) \in DOMAIN store

NoDelim(s) == \A i \in 1..Len(s) : s[i] # "_"

\* C8: for identifiers without "_", the state that authorize puts in the
\* authorization URL splits, the way the callback splits it, into exactly the
\* original (user_id, org_id).
C8_StateRoundTrip ==
    /\ (auth.called /\ NoDelim(auth.user_id) /\ NoDelim(auth.org_id))
       => split(StateInUrl(auth.authorization_url)) = <<auth.user_id, auth.org_id>>
    /\ \A user_id \in StrUpTo(MaxIdLen), org_id \in StrUpTo(MaxIdLen) :
        (/\ NoDelim(user_id) /\ NoDelim(org_id)
         /\ cb[1].pc # "idle"
         /\ cb[1].params.state
                = StateInUrl(authorize_hubspot(user_id, org_id).authorization_url))
        => /\ cb[1].pc = "posting"
           /\ cb[1].user_id = user_id
           /\ cb[1].org_id = org_id

C8_Witness ==
    /\ auth.called /\ auth.user_id = <<"a", "a">> /\ auth.org_id = <<"a">>
    /\ cb[1].pc = "posting"
    /\ cb[1].params.state = StateInUrl(auth.authorization_url)
    /\ cb[1].user_id = <<"a", "a">> /\ cb[1].org_id = <<"a">>

\* C9: flows for the same user/org are not serialized; each store write replaces
\* the whole entry with the writer's token response, so the entry is that of the
\* flow whose write came last and nothing of an earlier write is left.
C9_LastWriteWins ==
    /\ [][\A p \in Flows :
            (cb[p].pc = "storing" /\ cb'[p].pc = "done")
            => /\ writeLog' = Append(writeLog, p)
               /\ KeyOfState(p) \in DOMAIN store'
               /\ store'[KeyOfState(p)]
                    = [value |-> store'[KeyOfState(p)].value,
                       ttl |-> LifetimeOf(TokenResponse(p)),
                       left |-> LifetimeOf(TokenResponse(p)).n]
               /\ json_loads(store'[KeyOfState(p)].value) = Parsed(TokenResponse(p))
               /\ \A k \in DOMAIN store \ {KeyOfState(p)} :
                    k \in DOMAIN store' /\ store'[k] = store[k]]_vars
    /\ [](\A k \in DOMAIN store :
            \E p \in Writers :
                /\ KeyOfState(p) = k
                /\ ~Overwritten(p)
                /\ json_loads(store[k].value) = Parsed(TokenResponse(p))
                /\ store[k].ttl = LifetimeOf(TokenResponse(p)))

C9_Witness ==
    /\ writeLog = <<2, 1>>
    /\ Succeeded(1) /\ Succeeded(2)
    /\ cb[1].params.state = cb[2].params.state
    /\ TokenResponse(1) # TokenResponse(2)
    /\ KeyOfState(1) \in DOMAIN store
    /\ json_loads(store[KeyOfState(1)].value) = Parsed(TokenResponse(1))
    /\ store[KeyOfState(1)].ttl # LifetimeOf(TokenResponse(2))

\* C10: whatever the provider answers, the callback and get_credentials end with
\* a value for the caller (a payload, a credential or the page), never with an
\* exception that leaves the operation.
C10_NoUnhandledFault ==
    /\ \A p \in Flows :
        cb[p].response # NoResponse => cb[p].result.kind # "raised"
    /\ \A user_id \in CredentialIds, org_id \in CredentialIds :
        get_hubspot_credentials(store, user_id, org_id).kind # "raised"

\* the listing response the invocation got, decoded
ListingData == json_loads(fetch.response.text).v

\* the invocation got a 2xx listing response whose body holds a result list
GotRecords ==
    /\ fetch.pc = "done"
    /\ fetch.response.status \in 200..299
    /\ json_loads(fetch.response.text).ok
    /\ ListingData.t = "dict"
    /\ HasKey(ListingData, "results")
    /\ DictGet(ListingData, "results", None).t = "list"

\* the records of that result list
Records == DictGet(ListingData, "results", None).items

\* a record: an object whose properties, when it has them, are an object
IsRecord(v) ==
    v.t = "dict" /\ (HasKey(v, "properties") => DictGet(v, "properties", None).t = "dict")

\* the id of a record
IdOf(record) == IF HasKey(record, "id") THEN DictGet(record, "id", None) ELSE None

\* C11: for a 2xx listing response whose result list has n records, fetch_items
\* returns exactly n items, the i-th built from the i-th record (same id, raw_data
\* the record itself), in the response's order and with nothing merged; for an
\* empty list it returns the empty sequence and no error.
C11_OneItemPerRecord ==
    (GotRecords /\ \A i \in 1..Len(Records) : IsRecord(Records[i])) =>
        /\ fetch.result.kind = "items"
        /\ Len(fetch.result.value) = Len(Records)
        /\ \A i \in 1..Len(Records) :
            /\ fetch.result.value[i].raw_data = Records[i]
            /\ fetch.result.value[i].id = IdOf(Records[i])

\* C12: when the listing endpoint answers with a status outside 2xx, fetch_items
\* returns the error payload that carries the raw response text; no item list,
\* whole or partial, is returned.
C12_FailedListingGivesPayload ==
    (fetch.pc = "done" /\ fetch.response # NoResponse /\ fetch.response.status \notin 200..299)
        => /\ fetch.result.kind = "error"
           /\ fetch.result.error = fetch.response.text

C12_Witness ==
    /\ fetch.pc = "done"
    /\ fetch.response.status = 500
    /\ json_loads(fetch.response.text).ok
    /\ Len(DictGet(json_loads(fetch.response.text).v, "results", None).items) = 1
    /\ fetch.result = ErrorPayload(fetch.response.text)

\* the properties of a record
PropsOf(record) == DictGet(record, "properties", Dict(<<>>))

\* the timestamp field of the record holds a text that cannot be parsed
Unparseable(record, key) ==
    /\ HasKey(PropsOf(record), key)
    /\ DictGet(PropsOf(record), key, None).t = "str"
    /\ ~ParsedTime(PropsOf(record), key).ok

\* the timestamp field of the record is there and can be parsed
Parseable(record, key) == HasKey(PropsOf(record), key) /\ ParsedTime(PropsOf(record), key).ok

\* C13: a createdate or lastmodifieddate that cannot be parsed neither blocks the
\* parsing of the other field nor aborts the record: the record still yields its
\* item, with the other timestamp parsed, and the other records yield theirs.
C13_TimestampFailureKeepsRecord ==
    (/\ GotRecords
     /\ \A i \in 1..Len(Records) : IsRecord(Records[i])
     /\ \E i \in 1..Len(Records) :
            Unparseable(Records[i], "createdate") \/ Unparseable(Records[i], "lastmodifieddate"))
    => /\ fetch.result.kind = "items"
       /\ Len(fetch.result.value) = Len(Records)
       /\ \A i \in 1..Len(Records) :
            /\ fetch.result.value[i].raw_data = Records[i]
            /\ Parseable(Records[i], "createdate")
               => fetch.result.value[i].creation_time
                    = ParsedTime(PropsOf(Records[i]), "createdate").v
            /\ Parseable(Records[i], "lastmodifieddate")
               => fetch.result.value[i].last_modified_time
                    = ParsedTime(PropsOf(Records[i]), "lastmodifieddate").v

\* C14: the callback writes to the store only after a 2xx token response has been
\* decoded, and the write is its last step that changes anything: every other
\* step of an invocation leaves the store as it is, so an invocation that is
\* cancelled or fails before the write never wrote, and the write changes the one
\* entry of its key and nothing else.
C14_WriteIsLastStep ==
    /\ [][\A p \in Flows :
            cb'[p].pc # cb[p].pc =>
                IF cb[p].pc = "storing" /\ cb'[p].pc = "done"
                THEN /\ cb[p].response.status \in 200..299
                     /\ json_loads(cb[p].response.text).ok
                     /\ KeyOfState(p) \in DOMAIN store'
                     /\ DOMAIN store' = DOMAIN store \cup {KeyOfState(p)}
                     /\ \A k \in DOMAIN store \ {KeyOfState(p)} : store'[k] = store[k]
                ELSE store' = store]_vars
    /\ [](\A p \in Flows :
            /\ p \in Writers
               => /\ Succeeded(p)
                  /\ cb[p].response.status \in 200..299
                  /\ json_loads(cb[p].response.text).ok
            /\ (cb[p].pc = "cancelled" \/ (cb[p].pc = "done" /\ cb[p].result.kind # "html"))
               => p \notin Writers)

C14_Witness ==
    \E p \in Flows, q \in Flows :
        /\ cb[p].pc = "cancelled" /\ cb[p].response.status = 200
        /\ NumDelims(cb[p].params.state) = 1
        /\ KeyOfState(p) \notin DOMAIN store
        /\ Succeeded(q) /\ Writers = {q}
        /\ DOMAIN store = {KeyOfState(q)}

\* the step is the store write of a successful exchange for the pair of key k
IsWriteOf(k) ==
    \E p \in Flows :
        /\ cb[p].pc = "storing" /\ cb'[p].pc = "done"
        /\ cb[p].response.status \in 200..299
        /\ KeyOfState(p) = k
        /\ json_loads(store'[k].value) = Parsed(TokenResponse(p))

\* the step is the passing of time and nothing else
IsExpiryStep == ticks' = ticks + 1 /\ \A p \in Flows : cb'[p].pc = cb[p].pc

\* C15: an entry appears only with the store write of a successful exchange, its
\* content changes only with such a write for the same user/org, and it goes only
\* when its TTL runs out (no operation of the module removes it); once the TTL of
\* the latest write for a pair has elapsed, get_credentials for the pair returns
\* the NoCredentials payload.
C15_CredentialLifecycle ==
    /\ [][\A k \in DOMAIN store \cup DOMAIN store' :
            /\ (k \notin DOMAIN store) => IsWriteOf(k)
            /\ (k \in DOMAIN store /\ k \in DOMAIN store' /\ store'[k] # store[k])
               => \/ IsWriteOf(k)
                  \/ /\ IsExpiryStep
                     /\ store'[k].value = store[k].value
                     /\ store'[k].ttl = store[k].ttl
                     /\ store'[k].left < store[k].left
            /\ (k \notin DOMAIN store') => IsExpiryStep]_vars
    /\ [](\A p \in Flows, user_id \in CredentialIds, org_id \in CredentialIds :
            (/\ Succeeded(p)
             /\ StateIs(p, user_id, org_id)
             /\ ~Overwritten(p)
             /\ cb[p].age >= LifetimeOf(TokenResponse(p)).n)
            => /\ CredentialKey(user_id, org_id) \notin DOMAIN store
               /\ get_hubspot_credentials(store, user_id, org_id) = NoCredentialsPayload
               /\ (get.called /\ get.user_id = user_id /\ get.org_id = org_id
                       /\ get.since = "nothing")
                  => get.result = NoCredentialsPayload)

C15_Witness ==
    \E p \in Flows :
        /\ Succeeded(p) /\ ~Overwritten(p) /\ Len(writeLog) = 2
        /\ HasKey(TokenResponse(p), "access_token")
        /\ cb[p].age >= LifetimeOf(TokenResponse(p)).n
        /\ get.called /\ get.since = "nothing"
        /\ StateIs(p, get.user_id, get.org_id)
        /\ get.prev.kind = "value" /\ get.between = "expired"
        /\ get.result = NoCredentialsPayload

\* the credential handed to fetch_items decodes to an object
CredentialObject ==
    IF fetch.credentials.is_str THEN json_loads(fetch.credentials.text)
    ELSE Parsed(fetch.credentials.value)

\* the object has no access_token, or an empty or null one
LacksToken(d) ==
    \/ ~HasKey(d, "access_token")
    \/ DictGet(d, "access_token", None) \in {Str(""), None}

MissingAccessToken == ErrorPayload(Msg("Access token is missing"))

\* C16: fetch_items called with a credential object (given as such or as a string
\* that decodes to one) without a non-empty access_token, the error payload of
\* get_credentials included, returns the MissingAccessToken payload and sends no
\* request to the listing endpoint.
C16_NoTokenNoRequest ==
    (fetch.pc # "idle" /\ CredentialObject.ok /\ CredentialObject.v.t = "dict"
        /\ LacksToken(CredentialObject.v))
    => /\ fetch.pc = "done"
       /\ fetch.result = MissingAccessToken
       /\ fetch.gets = 0
       /\ fetch.response = NoResponse

C16_Witness ==
    /\ fetch.pc = "done"
    /\ ~fetch.credentials.is_str
    /\ fetch.credentials.value
        = Dict(<<Item("error", Str("No valid credentials found. Please authorize HubSpot."))>>)
    /\ DOMAIN store # {}
    /\ fetch.result = MissingAccessToken
    /\ fetch.gets = 0

\* the request of the invocation failed: no answer, or one outside 2xx
PostFailed(f) ==
    f.pc = "done" /\ (f.result = Raised("httpx.RequestError")
                        \/ (f.response # NoResponse /\ f.response.status \notin 200..299))

GetFailed(f) ==
    f.pc = "done" /\ f.gets = 1
        /\ (f.response = NoResponse \/ f.response.status \notin 200..299)

\* C17: nothing is retried. An invocation of the callback sends at most one POST
\* and an invocation of fetch_items at most one GET; when that request fails the
\* invocation has ended, with no item list and no store write, and it sends
\* nothing more.
C17_NoRetry ==
    /\ [](/\ \A p \in Flows : cb[p].posts <= 1
          /\ fetch.gets <= 1
          /\ \A p \in Flows : PostFailed(cb[p]) => cb[p].result.kind # "html" /\ p \notin Writers
          /\ GetFailed(fetch) => fetch.result.kind = "error")
    /\ [][/\ \A p \in Flows :
                /\ cb[p].pc \in {"done", "cancelled"} => cb'[p] = cb[p]
                /\ cb'[p].posts > cb[p].posts => cb[p].pc = "idle" /\ cb'[p].posts = 1
          /\ fetch.pc \in {"done", "cancelled"} => fetch' = fetch
          /\ fetch'.gets > fetch.gets => fetch.pc = "idle" /\ fetch'.gets = 1]_vars

C17_Witness ==
    /\ cb[1].pc = "done" /\ cb[1].result = Raised("httpx.RequestError") /\ cb[1].posts = 1
    /\ fetch.pc = "done" /\ fetch.response.status = 500 /\ fetch.gets = 1
    /\ fetch.result.kind = "error"

\* the record has a company value: a text that is not empty
HasCompany(record) ==
    /\ HasKey(PropsOf(record), "company")
    /\ DictGet(PropsOf(record), "company", None).t = "str"
    /\ DictGet(PropsOf(record), "company", None).s # ""

\* C18: the description in the metadata of every item is "Contact at " followed by
\* the company of its record when the record has one, and "Contact at No Company"
\* when the company property is absent, null or empty.
C18_DescriptionNamesCompany ==
    (fetch.pc = "done" /\ fetch.result.kind = "items") =>
        \A i \in 1..Len(fetch.result.value) :
            LET record == fetch.result.value[i].raw_data
            IN  fetch.result.value[i].metadata.description
                    = IF HasCompany(record)
                      THEN <<"Contact at ", DictGet(PropsOf(record), "company", None).s>>
                      ELSE <<"Contact at ", "No Company">>

\* identifiers that hold no delimiter
PlainIds == {s \in StrUpTo(MaxIdLen) : NoDelim(s)}

\* C19: a callback with state "{u}_{o}" touches no store entry but the one of
\* (u, o): every step of it leaves the entry of every other pair of plain
\* identifiers as it was, present or absent, so what get_credentials returns for a
\* pair was stored by a flow of that same pair.
C19_OtherPairsUntouched ==
    /\ [][\A p \in Flows, user_id \in PlainIds, org_id \in PlainIds :
            (cb'[p].pc # cb[p].pc
                /\ cb'[p].params.state # user_id \o <<"_">> \o org_id)
            => LET k == CredentialKey(user_id, org_id)
               IN  /\ (k \in DOMAIN store) = (k \in DOMAIN store')
                   /\ k \in DOMAIN store => store'[k] = store[k]]_vars
    /\ [](\A user_id \in PlainIds, org_id \in PlainIds :
            get_hubspot_credentials(store, user_id, org_id).kind = "value"
            => \E p \in Writers :
                /\ StateIs(p, user_id, org_id)
                /\ get_hubspot_credentials(store, user_id, org_id) = Returned(TokenResponse(p)))

C19_Witness ==
    /\ writeLog = <<2, 1>>
    /\ Succeeded(1) /\ Succeeded(2)
    /\ StateIs(2, <<"a">>, <<"a">>) /\ StateIs(1, <<"a">>, <<>>)
    /\ TokenResponse(1) # TokenResponse(2)
    /\ get_hubspot_credentials(store, <<"a">>, <<"a">>) = Returned(TokenResponse(2))
    /\ get_hubspot_credentials(store, <<"a">>, <<>>) = Returned(TokenResponse(1))

\* C20: when the callback for state "{u}_{o}" has ended with the confirmation
\* page, get_credentials(u, o) called right after it (before the entry can expire
\* or be written again) returns an object with an access_token and not the
\* NoCredentials payload, whatever 2xx token response the provider gave.
C20_SuccessPageMeansUsable ==
    \A p \in Flows, user_id \in CredentialIds, org_id \in CredentialIds :
        (Succeeded(p) /\ StateIs(p, user_id, org_id) /\ ~Overwritten(p) /\ cb[p].age = 0)
        => /\ get_hubspot_credentials(store, user_id, org_id).kind = "value"
           /\ HasKey(get_hubspot_credentials(store, user_id, org_id).value, "access_token")
           /\ (get.called /\ get.user_id = user_id /\ get.org_id = org_id
                   /\ get.since = "nothing")
              => get.result.kind = "value"

\* the token response names a token and a lifetime that has not run out at once
UsableResponse(R) == HasKey(R, "access_token") /\ LifetimeOf(R).n > 0

\* C20 amended: when the callback for state "{u}_{o}" has ended with the
\* confirmation page on a 2xx token response that is an object with an
\* access_token (and a positive expires_in, if any), get_credentials(u, o) called
\* right after it returns that object and not the NoCredentials payload.
C20_SuccessPageWithTokenMeansUsable ==
    \A p \in Flows, user_id \in CredentialIds, org_id \in CredentialIds :
        (/\ Succeeded(p) /\ StateIs(p, user_id, org_id) /\ ~Overwritten(p) /\ cb[p].age = 0
         /\ UsableResponse(TokenResponse(p)))
        => /\ get_hubspot_credentials(store, user_id, org_id).kind = "value"
           /\ HasKey(get_hubspot_credentials(store, user_id, org_id).value, "access_token")
           /\ (get.called /\ get.user_id = user_id /\ get.org_id = org_id
                   /\ get.since = "nothing")
              => get.result.kind = "value"

C20_Witness ==
    \E p \in Flows :
        /\ Succeeded(p) /\ ~Overwritten(p) /\ cb[p].age = 0
        /\ HasKey(TokenResponse(p), "access_token")
        /\ ~HasKey(TokenResponse(p), "expires_in")
        /\ get.called /\ get.since = "nothing"
        /\ StateIs(p, get.user_id, get.org_id)
        /\ get.result = Returned(TokenResponse(p))

====
